---- MODULE Spec2Model ----
(***************************************************************************)
(* Model of the usePipeSDK hook (src/src/index.ts): the module-level load  *)
(* state (loadingPromise, loadError, loadAttempts), the document's script  *)
(* and stylesheet tags, window.PipeSDK, and one load effect per hook       *)
(* invocation, with the continuations of `await loadingPromise` run from a *)
(* FIFO microtask queue that is drained before the next event or effect.   *)
(***************************************************************************)
EXTENDS Integers, Sequences, FiniteSets, TLC

\* ------------------------------------------------------------------ bounds
NumInv == 4
MaxExternal == 1
MaxRerender == 1
MaxUnmount == 1

\* ------------------------------------------------------- program constants
MAX_LOAD_ATTEMPTS == 3

Inv == 1..NumInv
MaxTags == NumInv + MaxExternal
TagIds == 1..MaxTags

\* UNDEFINED stands for an absent argument or property
UNDEFINED == "undefined"

\* The second argument of usePipeSDK: absent, an object with the optional properties
\* useS1 ("true" / "false") and buildSlug (a string), or the boolean true
NoOptions == [kind |-> "absent", useS1 |-> UNDEFINED, buildSlug |-> UNDEFINED]
BooleanTrue == [kind |-> "boolean", useS1 |-> UNDEFINED, buildSlug |-> UNDEFINED]
OptionsObject(useS1, buildSlug) == [kind |-> "object", useS1 |-> useS1, buildSlug |-> buildSlug]

\* (callback, options = {}) and const { useS1 = false, buildSlug } = options:
\* a property of an absent argument or of a boolean is undefined
destructure(arg) ==
    [useS1 |-> IF arg.useS1 = UNDEFINED THEN FALSE ELSE arg.useS1 = "true",
     buildSlug |-> arg.buildSlug]

\* the arguments of the invocations with different configurations
MultiArgs == { NoOptions, OptionsObject("true", UNDEFINED) }
Options == { destructure(a) : a \in MultiArgs }

\* the arguments of the invocations that differ in host and build
Slugs == { UNDEFINED, "", "build-42" }
UrlArgs == { NoOptions, BooleanTrue }
           \cup { OptionsObject(u, b) : u \in { UNDEFINED, "true", "false" }, b \in Slugs }

\* JavaScript truthiness of an optional string
Truthy(s) == s # UNDEFINED /\ s # ""

loadFrom(useS1) == IF useS1 THEN "s1" ELSE "cdn"

\* a script URL that ignores the build
scriptSrcLatest(useS1, buildSlug) ==
    <<"https://", loadFrom(useS1), ".addpipe.com/2.0/pipe.min.js">>

scriptSrc(useS1, buildSlug) ==
    IF Truthy(buildSlug)
    THEN <<"https://", loadFrom(useS1), ".addpipe.com/releases/2.0/", buildSlug, "/pipe.js">>
    ELSE <<"https://", loadFrom(useS1), ".addpipe.com/2.0/pipe.min.js">>

stylesheetHref(useS1, buildSlug) ==
    IF Truthy(buildSlug)
    THEN <<"https://", loadFrom(useS1), ".addpipe.com/releases/2.0/", buildSlug, "/pipe.css">>
    ELSE <<"https://", loadFrom(useS1), ".addpipe.com/2.0/pipe.css">>

ScriptUrls == { scriptSrc(o.useS1, o.buildSlug) : o \in Options }
StyleUrls == { stylesheetHref(destructure(a).useS1, destructure(a).buildSlug) :
                  a \in MultiArgs \cup UrlArgs }

\* the script URL an invocation with second argument arg computes
srcOf(arg) == scriptSrc(destructure(arg).useS1, destructure(arg).buildSlug)

VARIABLES
    PipeSDK,         \* window.PipeSDK: 0 = undefined, else the identity of the runtime object
    loadingPromise,  \* 0 = null, else the promise of tag t
    loadError,       \* 0 = null, else the Error created when tag t failed
    loadAttempts,
    nTags,           \* number of script elements created so far
    tags,            \* script elements, in document order
    promise,         \* promise[t]: state of the promise bound to tag t
    waitq,           \* waitq[t]: invocations awaiting promise[t], in order of registration
    links,           \* links[h]: stylesheet link tags with href h in the document
    microtasks,      \* continuations ready to run
    options,         \* options[i]: the second argument of invocation i
    pc, opts, path, existingScript, awaited,
    callback,        \* callback[i]: the callback passed by the latest render of component i
    callbackRef,     \* callbackRef[i].current: 0 = the callback of the first render, k = of re-render k
    mounted,
    isLoaded, error, calls

globals == <<PipeSDK, loadingPromise, loadError, loadAttempts>>
dom == <<nTags, tags, links>>
proms == <<promise, waitq, microtasks>>
hookCtl == <<options, pc, opts, path, existingScript, awaited>>
hookRef == <<callback, callbackRef, mounted>>
hookOut == <<isLoaded, error, calls>>
vars == <<globals, dom, proms, hookCtl, hookRef, hookOut>>

\* a script element: sdk is the value of window.PipeSDK when its load event fired
NoTag == [url |-> <<>>, kind |-> "none", inDom |-> FALSE, status |-> "none",
          owner |-> 0, attached |-> FALSE, sdk |-> 0]

Init ==
    /\ PipeSDK = 0
    /\ loadingPromise = 0
    /\ loadError = 0
    /\ loadAttempts = 0
    /\ nTags = 0
    /\ tags = [t \in TagIds |-> NoTag]
    /\ promise = [t \in TagIds |-> "none"]
    /\ waitq = [t \in TagIds |-> <<>>]
    /\ links = [h \in StyleUrls |-> 0]
    /\ microtasks = <<>>
    /\ pc = [i \in Inv |-> "idle"]
    /\ options = [i \in Inv |-> NoOptions]
    /\ opts = [i \in Inv |-> destructure(NoOptions)]
    /\ path = [i \in Inv |-> "none"]
    /\ existingScript = [i \in Inv |-> 0]
    /\ awaited = [i \in Inv |-> 0]
    /\ callback = [i \in Inv |-> 0]
    /\ callbackRef = [i \in Inv |-> 0]
    /\ mounted = [i \in Inv |-> TRUE]
    /\ isLoaded = [i \in Inv |-> FALSE]
    /\ error = [i \in Inv |-> 0]
    /\ calls = [i \in Inv |-> <<>>]

\* ----------------------------------------------------------------- helpers

\* a selector that matches nothing
querySelectorNone(u) == 0

\* document.querySelector(`script[src="${u}"]`): first match in document order, 0 = null
querySelector(u) ==
    LET m == { t \in 1..nTags : tags[t].inDom /\ tags[t].url = u }
    IN IF m = {} THEN 0 ELSE CHOOSE t \in m : \A s \in m : t <= s

\* a call of the callback the effect's closure captured at the first render
invokeCaptured(cs, i, obj) == [cs EXCEPT ![i] = Append(@, <<0, obj>>)]

\* callbackRef.current(window.PipeSDK) for invocation i, with the runtime object obj
invoke(cs, i, obj) == [cs EXCEPT ![i] = Append(@, <<callbackRef[i], obj>>)]

\* setIsLoaded(true): a state update of an unmounted component is dropped
setIsLoaded(il, i) == IF mounted[i] THEN [il EXCEPT ![i] = TRUE] ELSE il

\* setError(e)
setError(er, i, e) == IF mounted[i] THEN [er EXCEPT ![i] = e] ELSE er

\* existingScript.remove()
remove(tg, t) == [tg EXCEPT ![t].inDom = FALSE]

\* the script element created by insertScriptAndStylesheet in the effect of i
newScript(tg, i, u) ==
    [tg EXCEPT ![nTags + 1] = [url |-> u, kind |-> "loader", inDom |-> TRUE,
                               status |-> "pending", owner |-> i, attached |-> FALSE,
                               sdk |-> 0]]

\* insertScriptAndStylesheet() of invocation i, on the document tg
insertScriptAndStylesheet(i, o, tg) ==
    /\ loadAttempts' = loadAttempts + 1
    /\ loadingPromise' = nTags + 1
    /\ tags' = newScript(tg, i, scriptSrc(o.useS1, o.buildSlug))
    /\ nTags' = nTags + 1
    /\ promise' = [promise EXCEPT ![nTags + 1] = "pending"]
    /\ links' = [links EXCEPT ![stylesheetHref(o.useS1, o.buildSlug)] = @ + 1]

\* `await p`: the continuation is queued at once when p is settled, else when it settles
await(i, p) ==
    /\ awaited' = [awaited EXCEPT ![i] = p]
    /\ pc' = [pc EXCEPT ![i] = "await"]
    /\ IF promise'[p] = "pending"
       THEN /\ waitq' = [waitq EXCEPT ![p] = Append(@, i)]
            /\ microtasks' = microtasks
       ELSE /\ waitq' = waitq
            /\ microtasks' = Append(microtasks, i)

\* resolve(window.PipeSDK) / reject(loadError) on the promise of tag t: the waiting
\* continuations become microtasks, in the order in which they started to wait
settle(t, outcome) ==
    /\ promise' = [promise EXCEPT ![t] = outcome]
    /\ microtasks' = microtasks \o waitq[t]
    /\ waitq' = [waitq EXCEPT ![t] = <<>>]

\* ----------------------------------------------------------------- actions

\* The load effect of invocation i up to its first await (or its return).
\* Invocations are numbered in the order in which their effects run.
Start(i, arg) ==
    /\ pc[i] = "idle"
    /\ \A j \in Inv : j < i => pc[j] # "idle"
    /\ microtasks = <<>>
    /\ options' = [options EXCEPT ![i] = arg]
    /\ opts' = [opts EXCEPT ![i] = destructure(arg)]

\* loadPipeSDK: window.PipeSDK already exists
InitReady(i, arg) ==
    /\ Start(i, arg)
    /\ PipeSDK # 0
    /\ calls' = invoke(calls, i, PipeSDK)
    /\ isLoaded' = setIsLoaded(isLoaded, i)
    /\ pc' = [pc EXCEPT ![i] = "returned"]
    /\ path' = [path EXCEPT ![i] = "ready"]
    /\ UNCHANGED <<globals, dom, proms, existingScript, awaited, hookRef, error>>

\* loadPipeSDK: attempts exhausted and an error is stored
InitFailed(i, arg) ==
    /\ Start(i, arg)
    /\ PipeSDK = 0
    /\ loadAttempts >= MAX_LOAD_ATTEMPTS /\ loadError # 0
    /\ error' = setError(error, i, loadError)
    /\ pc' = [pc EXCEPT ![i] = "returned"]
    /\ path' = [path EXCEPT ![i] = "failed"]
    /\ UNCHANGED <<globals, dom, proms, existingScript, awaited, hookRef, isLoaded, calls>>

\* the check of the stored failure left out
ProceedsUncapped == PipeSDK = 0

\* the check of the runtime object left out
ProceedsUnready == ~(loadAttempts >= MAX_LOAD_ATTEMPTS /\ loadError # 0)

\* the two conditions that let loadPipeSDK go on to look at the document
Proceeds == PipeSDK = 0 /\ ~(loadAttempts >= MAX_LOAD_ATTEMPTS /\ loadError # 0)

\* loadPipeSDK: a script with the URL exists and there is a loading promise: await it
InitJoin(i, arg) ==
    /\ Start(i, arg)
    /\ Proceeds
    /\ querySelector(srcOf(arg)) # 0
    /\ loadingPromise # 0
    /\ existingScript' = [existingScript EXCEPT ![i] = querySelector(srcOf(arg))]
    /\ path' = [path EXCEPT ![i] = "join"]
    /\ promise' = promise
    /\ await(i, loadingPromise)
    /\ UNCHANGED <<globals, dom, hookRef, hookOut>>

\* loadPipeSDK: a script with the URL exists and there is no loading promise:
\* create one bound to the existing tag's load and error events, and await it
InitAttach(i, arg) ==
    /\ Start(i, arg)
    /\ Proceeds
    /\ querySelector(srcOf(arg)) # 0
    /\ loadingPromise = 0
    /\ LET e == querySelector(srcOf(arg)) IN
        /\ existingScript' = [existingScript EXCEPT ![i] = e]
        /\ loadingPromise' = e
        /\ tags' = [tags EXCEPT ![e].attached = TRUE]
        /\ promise' = [promise EXCEPT ![e] = "pending"]
        /\ await(i, e)
    /\ path' = [path EXCEPT ![i] = "attach"]
    /\ UNCHANGED <<PipeSDK, loadError, loadAttempts, nTags, links, hookRef, hookOut>>

\* an inserter that also awaits the promise it has just created
InitInsertAwait(i, arg) ==
    /\ Start(i, arg)
    /\ Proceeds
    /\ querySelector(srcOf(arg)) = 0
    /\ insertScriptAndStylesheet(i, destructure(arg), tags)
    /\ path' = [path EXCEPT ![i] = "insert"]
    /\ await(i, nTags + 1)
    /\ UNCHANGED <<PipeSDK, loadError, existingScript, hookRef, hookOut>>

\* loadPipeSDK: no script with the URL exists: insert it (and do not await)
InitInsert(i, arg) ==
    /\ Start(i, arg)
    /\ Proceeds
    /\ querySelector(srcOf(arg)) = 0
    /\ insertScriptAndStylesheet(i, destructure(arg), tags)
    /\ pc' = [pc EXCEPT ![i] = "returned"]
    /\ path' = [path EXCEPT ![i] = "insert"]
    /\ UNCHANGED <<PipeSDK, loadError, waitq, microtasks, existingScript, awaited,
                   hookRef, hookOut>>

Initialize(i, arg) ==
    \/ InitReady(i, arg)
    \/ InitFailed(i, arg)
    \/ InitJoin(i, arg)
    \/ InitAttach(i, arg)
    \/ InitInsert(i, arg)

\* continuation of `await loadingPromise` after the promise resolved
Resumed(i) ==
    /\ microtasks # <<>>
    /\ Head(microtasks) = i
    /\ pc[i] = "await"
    /\ microtasks' = Tail(microtasks)
    /\ pc' = [pc EXCEPT ![i] = "returned"]

ContinueResolved(i) ==
    /\ Resumed(i)
    /\ promise[awaited[i]] = "resolved"
    /\ IF PipeSDK # 0
       THEN /\ calls' = invoke(calls, i, PipeSDK)
            /\ isLoaded' = setIsLoaded(isLoaded, i)
       ELSE UNCHANGED <<calls, isLoaded>>
    /\ UNCHANGED <<globals, dom, promise, waitq, options, opts, path, existingScript, awaited,
                   hookRef, error>>

\* the catch block: the awaited promise rejected with the Error of tag awaited[i]
ContinueRejected(i) ==
    /\ Resumed(i)
    /\ promise[awaited[i]] = "rejected"
    /\ error' = setError(error, i, awaited[i])
    /\ IF loadAttempts < MAX_LOAD_ATTEMPTS
       THEN insertScriptAndStylesheet(i, opts[i], remove(tags, existingScript[i]))
       ELSE UNCHANGED <<loadAttempts, loadingPromise, dom, promise>>
    /\ UNCHANGED <<PipeSDK, loadError, waitq, options, opts, path, existingScript, awaited,
                   hookRef, isLoaded, calls>>

Continue(i) == ContinueResolved(i) \/ ContinueRejected(i)

\* The load event of script element t.  The script has run: obj is the value of
\* window.PipeSDK afterwards (unchanged, or a runtime object created by this script).
\* A script element that was removed after its fetch began still runs and fires.
Fires(t) ==
    /\ microtasks = <<>>
    /\ t <= nTags
    /\ tags[t].status = "pending"

\* an onload that calls back without testing window.PipeSDK
ScriptOnloadUnguarded(t, obj) ==
    /\ Fires(t)
    /\ tags[t].kind = "loader"
    /\ tags' = [tags EXCEPT ![t].status = "loaded", ![t].sdk = obj]
    /\ PipeSDK' = obj
    /\ loadError' = 0
    /\ loadAttempts' = 0
    /\ settle(t, "resolved")
    /\ calls' = invoke(calls, tags[t].owner, obj)
    /\ isLoaded' = setIsLoaded(isLoaded, tags[t].owner)
    /\ UNCHANGED <<loadingPromise, nTags, links, hookCtl, hookRef, error>>

\* script.onload of a tag created by insertScriptAndStylesheet
ScriptOnload(t, obj) ==
    /\ Fires(t)
    /\ tags[t].kind = "loader"
    /\ tags' = [tags EXCEPT ![t].status = "loaded", ![t].sdk = obj]
    /\ PipeSDK' = obj
    /\ loadError' = 0
    /\ loadAttempts' = 0
    /\ settle(t, "resolved")
    /\ IF obj # 0
       THEN /\ calls' = invoke(calls, tags[t].owner, obj)
            /\ isLoaded' = setIsLoaded(isLoaded, tags[t].owner)
       ELSE UNCHANGED <<calls, isLoaded>>
    /\ UNCHANGED <<loadingPromise, nTags, links, hookCtl, hookRef, error>>

\* a listener that is removed without resolving the promise
AttachedOnLoadLost(t, obj) ==
    /\ Fires(t)
    /\ tags[t].kind = "external" /\ tags[t].attached
    /\ tags' = [tags EXCEPT ![t].status = "loaded", ![t].attached = FALSE, ![t].sdk = obj]
    /\ PipeSDK' = obj
    /\ UNCHANGED <<loadingPromise, loadError, loadAttempts, nTags, links, proms,
                   hookCtl, hookRef, hookOut>>

\* onLoad, the listener added to a tag that was found in the document
AttachedOnLoad(t, obj) ==
    /\ Fires(t)
    /\ tags[t].kind = "external" /\ tags[t].attached
    /\ tags' = [tags EXCEPT ![t].status = "loaded", ![t].attached = FALSE, ![t].sdk = obj]
    /\ PipeSDK' = obj
    /\ settle(t, "resolved")
    /\ UNCHANGED <<loadingPromise, loadError, loadAttempts, nTags, links,
                   hookCtl, hookRef, hookOut>>

\* the load event of a tag the hook has no listener on
PlainLoad(t, obj) ==
    /\ Fires(t)
    /\ tags[t].kind = "external" /\ ~tags[t].attached
    /\ tags' = [tags EXCEPT ![t].status = "loaded", ![t].sdk = obj]
    /\ PipeSDK' = obj
    /\ UNCHANGED <<loadingPromise, loadError, loadAttempts, nTags, links, proms,
                   hookCtl, hookRef, hookOut>>

LoadEvent(t, obj) ==
    \/ ScriptOnload(t, obj)
    \/ AttachedOnLoad(t, obj)
    \/ PlainLoad(t, obj)

\* script.onerror of a tag created by insertScriptAndStylesheet
ScriptOnerror(t) ==
    /\ Fires(t)
    /\ tags[t].kind = "loader"
    /\ tags' = [tags EXCEPT ![t].status = "failed"]
    /\ loadError' = t
    /\ settle(t, "rejected")
    /\ UNCHANGED <<PipeSDK, loadingPromise, loadAttempts, nTags, links,
                   hookCtl, hookRef, hookOut>>

\* onError, the listener added to a tag that was found in the document
AttachedOnError(t) ==
    /\ Fires(t)
    /\ tags[t].kind = "external" /\ tags[t].attached
    /\ tags' = [tags EXCEPT ![t].status = "failed", ![t].attached = FALSE]
    /\ loadError' = t
    /\ settle(t, "rejected")
    /\ UNCHANGED <<PipeSDK, loadingPromise, loadAttempts, nTags, links,
                   hookCtl, hookRef, hookOut>>

\* the error event of a tag the hook has no listener on
PlainError(t) ==
    /\ Fires(t)
    /\ tags[t].kind = "external" /\ ~tags[t].attached
    /\ tags' = [tags EXCEPT ![t].status = "failed"]
    /\ UNCHANGED <<globals, nTags, links, proms, hookCtl, hookRef, hookOut>>

ErrorEvent(t) ==
    \/ ScriptOnerror(t)
    \/ AttachedOnError(t)
    \/ PlainError(t)

\* Another part of the page appends a script tag with URL u
ExternalInsert(u) ==
    /\ microtasks = <<>>
    /\ Cardinality({ t \in 1..nTags : tags[t].kind = "external" }) < MaxExternal
    /\ tags' = [tags EXCEPT ![nTags + 1] = [url |-> u, kind |-> "external", inDom |-> TRUE,
                                           status |-> "pending", owner |-> 0,
                                           attached |-> FALSE, sdk |-> 0]]
    /\ nTags' = nTags + 1
    /\ UNCHANGED <<globals, links, proms, hookCtl, hookRef, hookOut>>

\* number of re-renders of components 1..n so far
RECURSIVE Rerenders(_)
Rerenders(n) == IF n = 0 THEN 0 ELSE callback[n] + Rerenders(n - 1)

\* A re-render of component i with a new callback, and the effect the change of
\* callback triggers: callbackRef.current = callback
UpdateCallback(i) ==
    /\ microtasks = <<>>
    /\ pc[i] # "idle" /\ mounted[i]
    /\ Rerenders(NumInv) < MaxRerender
    /\ callback' = [callback EXCEPT ![i] = @ + 1]
    /\ callbackRef' = [callbackRef EXCEPT ![i] = callback'[i]]
    /\ UNCHANGED <<globals, dom, proms, hookCtl, mounted, hookOut>>

\* Component i unmounts; the effect returns no cleanup function
Unmount(i) ==
    /\ microtasks = <<>>
    /\ pc[i] # "idle" /\ mounted[i]
    /\ Cardinality({ j \in Inv : ~mounted[j] }) < MaxUnmount
    /\ mounted' = [mounted EXCEPT ![i] = FALSE]
    /\ UNCHANGED <<globals, dom, proms, hookCtl, callback, callbackRef, hookOut>>

\* usePipeSDK(callback): options = {}
DefaultOptions == destructure(NoOptions)

\* the steps of the loader and of the document, for invocations whose second
\* argument is drawn from args
Load(args) ==
    \/ \E i \in Inv, a \in args : Initialize(i, a)
    \/ \E i \in Inv : Continue(i)
    \/ \E t \in TagIds : \E obj \in {PipeSDK, t} : LoadEvent(t, obj)
    \/ \E t \in TagIds : ErrorEvent(t)
    \/ \E a \in args : ExternalInsert(srcOf(a))

\* every invocation uses the default configuration and stays mounted with the
\* callback of its first render
Next == Load({NoOptions})

Spec == Init /\ [][Next]_vars

\* components also re-render with a new callback
NextRender ==
    \/ Load({NoOptions})
    \/ \E i \in Inv : UpdateCallback(i)

SpecRender == Init /\ [][NextRender]_vars

\* components also unmount
NextLife ==
    \/ Load({NoOptions})
    \/ \E i \in Inv : UpdateCallback(i)
    \/ \E i \in Inv : Unmount(i)

SpecLife == Init /\ [][NextLife]_vars

\* invocations with different configurations
NextMulti == Load(MultiArgs)

SpecMulti == Init /\ [][NextMulti]_vars

\* components with different hosts and builds run their load effects; no script
\* event has been delivered yet
NextUrl ==
    \E i \in Inv, a \in UrlArgs :
        \/ InitInsert(i, a)
        \/ InitJoin(i, a)

SpecUrl == Init /\ [][NextUrl]_vars

TypeOK ==
    /\ PipeSDK \in 0..MaxTags
    /\ loadingPromise \in 0..MaxTags
    /\ loadError \in 0..MaxTags
    /\ loadAttempts \in 0..(MAX_LOAD_ATTEMPTS + NumInv)
    /\ nTags \in 0..MaxTags
    /\ \A t \in TagIds : promise[t] \in {"none", "pending", "resolved", "rejected"}
    /\ \A i \in Inv : pc[i] \in {"idle", "await", "returned"}

\* ------------------------------------------------------------ derived state

\* the script tags the loader has inserted for URL u so far (removed ones included)
Inserted(u) == { t \in 1..nTags : tags[t].kind = "loader" /\ tags[t].url = u }

\* the script tags with URL u that are in the document
InDocument(u) == { t \in 1..nTags : tags[t].inDom /\ tags[t].url = u }

urlOf(i) == scriptSrc(opts[i].useS1, opts[i].buildSlug)

\* the invocations whose effect has run
Started == { i \in Inv : pc[i] # "idle" }

\* the invocation that inserted tag t first in an empty document, and those that
\* then awaited its promise
Sharers(t) ==
    { i \in Started : \/ path[i] = "insert" /\ tags[t].owner = i
                      \/ path[i] = "join" /\ awaited[i] = t }

\* ------------------------------------------------------------------- claims

\* C1: when several invocations with the same configuration start with no runtime
\* object and no script tag, the first inserts the tag and the others await its
\* promise; once the load event has fired with window.PipeSDK defined and the
\* continuations have run, exactly one script tag has been inserted for the URL and
\* each of these invocations has had its callback invoked exactly once, all with
\* the same runtime object.
C1_Singleton ==
    ( /\ nTags >= 1
      /\ tags[1].kind = "loader" /\ tags[1].status = "loaded" /\ tags[1].sdk # 0
      /\ microtasks = <<>> )
    => /\ Cardinality(Inserted(tags[1].url)) = 1
       /\ \A i \in Sharers(1) : Len(calls[i]) = 1 /\ calls[i][1][2] = tags[1].sdk

C1_Witness ==
    /\ nTags >= 1
    /\ tags[1].kind = "loader" /\ tags[1].status = "loaded" /\ tags[1].sdk # 0
    /\ microtasks = <<>>
    /\ Cardinality(Sharers(1)) >= 3
    /\ \A i \in Sharers(1) : Len(calls[i]) = 1

\* every script event has been delivered and every continuation has run
Quiescent ==
    /\ microtasks = <<>>
    /\ \A t \in 1..nTags : tags[t].status # "pending"

\* the effect of invocation i runs in this step
Initializes(i) == pc[i] = "idle" /\ pc'[i] # "idle"

\* C2: when every load attempt ends in an error event, the loader by itself removes
\* the failed tag and restarts the load until MAX_LOAD_ATTEMPTS script tags have
\* been inserted, and then shows the error to the invocation: so once all events
\* are delivered and nothing is left to run, MAX_LOAD_ATTEMPTS tags have been
\* inserted and every mounted invocation has an error.
C2_BoundedRetry ==
    ( /\ Quiescent
      /\ nTags >= 1
      /\ \A t \in 1..nTags : tags[t].kind = "loader" /\ tags[t].status = "failed" )
    => /\ Cardinality(Inserted(tags[1].url)) = MAX_LOAD_ATTEMPTS
       /\ \A i \in Started : mounted[i] => error[i] # 0

C4_IdempotentSuccess ==
    [][\A i \in Inv :
         (Initializes(i) /\ PipeSDK # 0)
         => /\ calls'[i] = <<<<callback[i], PipeSDK>>>>
            /\ isLoaded'[i]
            /\ pc'[i] = "returned"
            /\ tags' = tags /\ nTags' = nTags /\ links' = links
            /\ loadingPromise' = loadingPromise
            /\ loadError' = loadError
            /\ loadAttempts' = loadAttempts]_vars

\* an invocation that started after a successful load
C4_Witness ==
    \E i \in Started :
        /\ path[i] = "ready"
        /\ isLoaded[i]
        /\ Len(calls[i]) = 1
        /\ \E t \in 1..nTags : tags[t].kind = "loader" /\ tags[t].status = "loaded"
                               /\ tags[t].sdk = calls[i][1][2]

\* no script element has had an error event
NoFailure == \A t \in 1..nTags : tags[t].status # "failed"

C7_AtMostOnce == \A i \in Inv : Len(calls[i]) <= 1

\* an invocation that was told of a failure, inserted the next attempt and was
\* called back once by its load event
C7_Witness ==
    \E i \in Started :
        /\ path[i] = "join"
        /\ \E t \in 1..nTags : tags[t].owner = i /\ tags[t].status = "loaded"
        /\ Len(calls[i]) = 1

\* C8: for each URL at most one loader-inserted script tag is in the document and
\* at most one load is in flight.
C8_SingleLoad ==
    \A u \in ScriptUrls :
        /\ Cardinality({ t \in InDocument(u) : tags[t].kind = "loader" }) <= 1
        /\ Cardinality({ t \in Inserted(u) : tags[t].status = "pending" }) <= 1

\* C9: when a load attempt has succeeded and nothing is left to happen, every
\* mounted invocation for that URL has had its callback invoked and isLoaded set.
C9_AllNotified ==
    \A u \in ScriptUrls :
        ( /\ Quiescent
          /\ \E t \in Inserted(u) : tags[t].status = "loaded" /\ tags[t].sdk # 0 )
        => \A i \in Started :
               (urlOf(i) = u /\ mounted[i]) => (calls[i] # <<>> /\ isLoaded[i])

\* C10: an invocation's error becomes non-null only in a step in which the attempt
\* cap is exhausted and a failure is stored, and never in a step that retries.
C10_ErrorOnlyPermanent ==
    [][\A i \in Inv :
         (error[i] = 0 /\ error'[i] # 0)
         => /\ loadAttempts >= MAX_LOAD_ATTEMPTS
            /\ loadError # 0
            /\ nTags' = nTags]_vars

\* C11: per invocation, isLoaded never returns to false, error never returns to
\* null, and isLoaded = true never holds together with a non-null error.
C11_TerminalExclusive ==
    [][\A i \in Inv :
         /\ isLoaded[i] => isLoaded'[i]
         /\ error[i] # 0 => error'[i] # 0
         /\ ~(isLoaded'[i] /\ error'[i] # 0)]_vars

\* C12: whenever a loading promise rejects, at least one invocation is awaiting
\* it, so the rejection is handled.
C12_RejectionHandled ==
    [][\A t \in TagIds :
         (promise[t] = "pending" /\ promise'[t] = "rejected") => waitq[t] # <<>>]_vars

\* C13: once component i has unmounted, no later step invokes its callback or
\* changes its isLoaded.
C13_NoCallAfterUnmount ==
    [][\A i \in Inv :
         ~mounted[i] => (calls'[i] = calls[i] /\ isLoaded'[i] = isLoaded[i])]_vars

\* the loader-inserted script with URL u whose load is in flight and whose promise
\* is the current loadingPromise (0 if there is none)
InFlight(u) ==
    IF /\ loadingPromise # 0
       /\ tags[loadingPromise].kind = "loader"
       /\ tags[loadingPromise].url = u
       /\ tags[loadingPromise].inDom
       /\ tags[loadingPromise].status = "pending"
    THEN loadingPromise
    ELSE 0

\* C16: an invocation whose effect runs while a load attempt for its URL is in
\* flight awaits that attempt's promise and is given no error in that step.
C16_JoinInFlight ==
    [][\A i \in Inv :
         ( /\ Initializes(i)
           /\ PipeSDK = 0
           /\ InFlight(scriptSrc(opts'[i].useS1, opts'[i].buildSlug)) # 0 )
         => /\ pc'[i] = "await"
            /\ awaited'[i] = loadingPromise
            /\ error'[i] = 0]_vars

\* a load has succeeded: a loader-inserted script has fired its load event with
\* window.PipeSDK defined
Succeeded == \E t \in 1..nTags : tags[t].kind = "loader" /\ tags[t].status = "loaded"
                                 /\ tags[t].sdk # 0

\* C17: once a load has succeeded, no step inserts a script tag for the loader or
\* removes a loaded script tag from the document.
C17_SucceededTerminal ==
    [][Succeeded =>
         /\ \A t \in TagIds : tags'[t].kind = "loader" => tags[t].kind = "loader"
         /\ \A t \in TagIds : (tags[t].status = "loaded" /\ tags[t].inDom)
                                 => tags'[t].inDom]_vars

\* C20: the loader has inserted at most one stylesheet link tag per stylesheet URL.
C20_SingleStylesheet == \A h \in StyleUrls : links[h] <= 1

\* the script tag invocation i inserted or found in the document (0 if none)
scriptOf(i) ==
    IF path[i] = "insert"
    THEN CHOOSE t \in 1..nTags : tags[t].kind = "loader" /\ tags[t].owner = i
    ELSE existingScript[i]

\* the URLs as C14 states them
ClaimedHost(useS1) == IF useS1 THEN "s1" ELSE "cdn"

\* C14: the script and stylesheet URLs an invocation uses are on s1.addpipe.com
\* when useS1 is true and on cdn.addpipe.com otherwise; with a buildSlug present
\* (the empty string included) the paths are /releases/2.0/<buildSlug>/pipe.js and
\* .../pipe.css, without one /2.0/pipe.min.js and /2.0/pipe.css.
C14_UrlsAnyPresentSlug ==
    \A i \in Started :
        LET o == opts[i]
            host == ClaimedHost(o.useS1)
        IN IF o.buildSlug # UNDEFINED
           THEN /\ tags[scriptOf(i)].url =
                       <<"https://", host, ".addpipe.com/releases/2.0/", o.buildSlug, "/pipe.js">>
                /\ links[<<"https://", host, ".addpipe.com/releases/2.0/", o.buildSlug, "/pipe.css">>] >= 1
           ELSE /\ tags[scriptOf(i)].url = <<"https://", host, ".addpipe.com/2.0/pipe.min.js">>
                /\ links[<<"https://", host, ".addpipe.com/2.0/pipe.css">>] >= 1

\* C14 as amended: as above, but an empty buildSlug counts as absent: only a
\* non-empty buildSlug selects the /releases/2.0/<buildSlug>/ paths.
C14_Urls ==
    \A i \in Started :
        LET o == opts[i]
            host == ClaimedHost(o.useS1)
        IN IF o.buildSlug # UNDEFINED /\ o.buildSlug # ""
           THEN /\ tags[scriptOf(i)].url =
                       <<"https://", host, ".addpipe.com/releases/2.0/", o.buildSlug, "/pipe.js">>
                /\ links[<<"https://", host, ".addpipe.com/releases/2.0/", o.buildSlug, "/pipe.css">>] >= 1
           ELSE /\ tags[scriptOf(i)].url = <<"https://", host, ".addpipe.com/2.0/pipe.min.js">>
                /\ links[<<"https://", host, ".addpipe.com/2.0/pipe.css">>] >= 1

\* one invocation has loaded a build from S1, another, with an empty buildSlug,
\* the latest release from the CDN
C14_Witness ==
    \E i, j \in Started :
        /\ options[i] = OptionsObject("true", "build-42")
        /\ tags[scriptOf(i)].url =
               <<"https://", "s1", ".addpipe.com/releases/2.0/", "build-42", "/pipe.js">>
        /\ options[j] = OptionsObject("false", "")
        /\ tags[scriptOf(j)].url = <<"https://", "cdn", ".addpipe.com/2.0/pipe.min.js">>

\* C15: an invocation called as usePipeSDK(callback, true) uses a script and a
\* stylesheet on s1.addpipe.com.
C15_BooleanSelectsS1 ==
    \A i \in Started :
        options[i] = BooleanTrue
        => /\ tags[scriptOf(i)].url[2] = "s1"
           /\ \E h \in StyleUrls : h[2] = "s1" /\ links[h] >= 1

\* C19: loadAttempts stays within 0..MAX_LOAD_ATTEMPTS, and it decreases only in a
\* step in which a script fires its load event.
C19_AttemptsBounded ==
    [][/\ loadAttempts' \in 0..MAX_LOAD_ATTEMPTS
       /\ loadAttempts' < loadAttempts
            => \E t \in TagIds : tags[t].status = "pending" /\ tags'[t].status = "loaded"]_vars

\* C18: load state is kept per script URL: an invocation only ever waits on the
\* promise of a script tag of its own URL, and an invocation that starts while
\* invocations for a different URL have run leaves loadAttempts, loadError and
\* loadingPromise, which those invocations see, unchanged.
C18_PerUrlState ==
    [][\A i \in Inv :
         LET u == scriptSrc(opts'[i].useS1, opts'[i].buildSlug) IN
         /\ pc'[i] = "await" => tags'[awaited'[i]].url = u
         /\ (Initializes(i) /\ Started # {} /\ \A j \in Started : urlOf(j) # u)
              => /\ loadAttempts' = loadAttempts
                 /\ loadError' = loadError
                 /\ loadingPromise' = loadingPromise]_vars

\* C21: on every path a callback is invoked only while window.PipeSDK is defined,
\* and with exactly that object; isLoaded of an invocation is true only if its
\* callback has been invoked; and a load event that leaves window.PipeSDK undefined
\* invokes no callback and sets no isLoaded.
C21_ReadyOnlyWithRuntime ==
    [][/\ \A i \in Inv :
            /\ calls'[i] # calls[i]
                 => /\ PipeSDK' # 0
                    /\ Len(calls'[i]) = Len(calls[i]) + 1
                    /\ calls'[i][Len(calls'[i])][2] = PipeSDK'
            /\ isLoaded'[i] => Len(calls'[i]) >= 1
       /\ ( /\ \E t \in TagIds : tags[t].status = "pending" /\ tags'[t].status = "loaded"
            /\ PipeSDK' = 0 )
            => calls' = calls /\ isLoaded' = isLoaded]_vars

\* a script the hook inserted has loaded without defining window.PipeSDK and its
\* inserter was not called; a later invocation was called with the runtime object
\* that another script defined
C21_Witness ==
    /\ PipeSDK # 0
    /\ \E t \in 1..nTags :
        /\ tags[t].kind = "loader" /\ tags[t].status = "loaded" /\ tags[t].sdk = 0
        /\ calls[tags[t].owner] = <<>>
        /\ ~isLoaded[tags[t].owner]
    /\ \E j \in Started :
        /\ isLoaded[j]
        /\ calls[j] = <<<<callbackRef[j], PipeSDK>>>>

====
